---- MODULE Spec2Model ----
(***************************************************************************)
(* Model of the base64mix codec (src/src/base64mix.h) and of its Lua      *)
(* binding (src/src/base64.c).                                            *)
(*                                                                         *)
(* Bytes and characters are their unsigned char values 0..255.  A C array *)
(* a[] is a TLA+ tuple, a[i] being the tuple's element i+1.  size_t is an *)
(* unsigned integer of SizeBits bits: every size_t expression of the code *)
(* is reduced modulo 2^SizeBits where the C expression can wrap.  The     *)
(* code's size_t is 32 or 64 bits wide; the model keeps it narrow so that *)
(* inputs as long as SIZE_MAX, where the length computations wrap, are    *)
(* inputs it can hold.  The code never names the width, only SIZE_MAX.    *)
(***************************************************************************)
EXTENDS Integers, Sequences, FiniteSets, TLC

(***************************************************************************)
(* Bounds of the model.                                                    *)
(***************************************************************************)
\* width of size_t in bits
SizeBits == 7
\* encode inputs: number of leading 3-byte groups taken from HeadText
MaxHeadGroups == 5
\* encode inputs: length of the exhaustively enumerated byte suffix
MaxEncTail == 2
\* decode inputs: number of leading valid 4-character blocks
MaxHeadBlocks == 2
\* decode inputs: length of the exhaustively enumerated character suffix
MaxDecTail == 4
\* destination capacities 0..MaxDstLen are tried for every input
MaxDstLen == 1

SIZE_MAX == 2^SizeBits - 1

\* (size_t) x : reduction of an integer to the width of size_t
SizeT(x) == x % (SIZE_MAX + 1)

(***************************************************************************)
(* errno values, by name.  NoErr is the value 0 the callers clear errno to.*)
(***************************************************************************)
NoErr == "0"
EINVAL == "EINVAL"
ENOSPC == "ENOSPC"
EILSEQ == "EILSEQ"
ERANGE == "ERANGE"
ENOMEM == "ENOMEM"

\* a pointer argument: NULL, or a pointer to the cells mem[1..]
NULL == [null |-> TRUE, mem |-> <<>>]
Ptr(m) == [null |-> FALSE, mem |-> m]

\* the size_t cell a length pointer points to, and the NULL length pointer
Cell(n) == [null |-> FALSE, val |-> n]
NoCell == [null |-> TRUE, val |-> 0]

\* the NULL result of an allocating function
NoBlock == 0

\* content of a destination cell the callee has not written
Untouched == -1

\* the character '='
PadChar == 61

(***************************************************************************)
(* Alphabet tables, copied entry by entry from the arrays of the header.   *)
(***************************************************************************)
BASE64MIX_STDENC ==
  <<
    65, 66, 67, 68, 69, 70, 71, 72, 73, 74, 75, 76, 77,
    78, 79, 80, 81, 82, 83, 84, 85, 86, 87, 88, 89, 90,
    97, 98, 99, 100, 101, 102, 103, 104, 105, 106, 107, 108, 109,
    110, 111, 112, 113, 114, 115, 116, 117, 118, 119, 120, 121, 122,
    48, 49, 50, 51, 52, 53, 54, 55, 56, 57, 43, 47
  >>

BASE64MIX_URLENC ==
  <<
    65, 66, 67, 68, 69, 70, 71, 72, 73, 74, 75, 76, 77,
    78, 79, 80, 81, 82, 83, 84, 85, 86, 87, 88, 89, 90,
    97, 98, 99, 100, 101, 102, 103, 104, 105, 106, 107, 108, 109,
    110, 111, 112, 113, 114, 115, 116, 117, 118, 119, 120, 121, 122,
    48, 49, 50, 51, 52, 53, 54, 55, 56, 57, 45, 95
  >>

BASE64MIX_STDDEC ==
  <<
    255, 255, 255, 255, 255, 255, 255, 255, 255, 255, 255, 255, 255, 255, 255, 255,
    255, 255, 255, 255, 255, 255, 255, 255, 255, 255, 255, 255, 255, 255, 255, 255,
    255, 255, 255, 255, 255, 255, 255, 255, 255, 255, 255, 62, 255, 255, 255, 63,
    52, 53, 54, 55, 56, 57, 58, 59, 60, 61, 255, 255, 255, 255, 255, 255,
    255, 0, 1, 2, 3, 4, 5, 6, 7, 8, 9, 10, 11, 12, 13, 14,
    15, 16, 17, 18, 19, 20, 21, 22, 23, 24, 25, 255, 255, 255, 255, 255,
    255, 26, 27, 28, 29, 30, 31, 32, 33, 34, 35, 36, 37, 38, 39, 40,
    41, 42, 43, 44, 45, 46, 47, 48, 49, 50, 51, 255, 255, 255, 255, 255,
    255, 255, 255, 255, 255, 255, 255, 255, 255, 255, 255, 255, 255, 255, 255, 255,
    255, 255, 255, 255, 255, 255, 255, 255, 255, 255, 255, 255, 255, 255, 255, 255,
    255, 255, 255, 255, 255, 255, 255, 255, 255, 255, 255, 255, 255, 255, 255, 255,
    255, 255, 255, 255, 255, 255, 255, 255, 255, 255, 255, 255, 255, 255, 255, 255,
    255, 255, 255, 255, 255, 255, 255, 255, 255, 255, 255, 255, 255, 255, 255, 255,
    255, 255, 255, 255, 255, 255, 255, 255, 255, 255, 255, 255, 255, 255, 255, 255,
    255, 255, 255, 255, 255, 255, 255, 255, 255, 255, 255, 255, 255, 255, 255, 255,
    255, 255, 255, 255, 255, 255, 255, 255, 255, 255, 255, 255, 255, 255, 255, 255
  >>

\* the URL-safe reverse table replaced by the Standard one
BASE64MIX_URLDEC_Standard == BASE64MIX_STDDEC

BASE64MIX_URLDEC ==
  <<
    255, 255, 255, 255, 255, 255, 255, 255, 255, 255, 255, 255, 255, 255, 255, 255,
    255, 255, 255, 255, 255, 255, 255, 255, 255, 255, 255, 255, 255, 255, 255, 255,
    255, 255, 255, 255, 255, 255, 255, 255, 255, 255, 255, 255, 255, 62, 255, 255,
    52, 53, 54, 55, 56, 57, 58, 59, 60, 61, 255, 255, 255, 255, 255, 255,
    255, 0, 1, 2, 3, 4, 5, 6, 7, 8, 9, 10, 11, 12, 13, 14,
    15, 16, 17, 18, 19, 20, 21, 22, 23, 24, 25, 255, 255, 255, 255, 63,
    255, 26, 27, 28, 29, 30, 31, 32, 33, 34, 35, 36, 37, 38, 39, 40,
    41, 42, 43, 44, 45, 46, 47, 48, 49, 50, 51, 255, 255, 255, 255, 255,
    255, 255, 255, 255, 255, 255, 255, 255, 255, 255, 255, 255, 255, 255, 255, 255,
    255, 255, 255, 255, 255, 255, 255, 255, 255, 255, 255, 255, 255, 255, 255, 255,
    255, 255, 255, 255, 255, 255, 255, 255, 255, 255, 255, 255, 255, 255, 255, 255,
    255, 255, 255, 255, 255, 255, 255, 255, 255, 255, 255, 255, 255, 255, 255, 255,
    255, 255, 255, 255, 255, 255, 255, 255, 255, 255, 255, 255, 255, 255, 255, 255,
    255, 255, 255, 255, 255, 255, 255, 255, 255, 255, 255, 255, 255, 255, 255, 255,
    255, 255, 255, 255, 255, 255, 255, 255, 255, 255, 255, 255, 255, 255, 255, 255,
    255, 255, 255, 255, 255, 255, 255, 255, 255, 255, 255, 255, 255, 255, 255, 255
  >>

\* the Mixed table without the URL-safe punctuation
BASE64MIX_DEC_StdOnly == BASE64MIX_STDDEC

\* the Mixed table replaced by the URL-safe one
BASE64MIX_DEC_UrlOnly == BASE64MIX_URLDEC

BASE64MIX_DEC ==
  <<
    255, 255, 255, 255, 255, 255, 255, 255, 255, 255, 255, 255, 255, 255, 255, 255,
    255, 255, 255, 255, 255, 255, 255, 255, 255, 255, 255, 255, 255, 255, 255, 255,
    255, 255, 255, 255, 255, 255, 255, 255, 255, 255, 255, 62, 255, 62, 255, 63,
    52, 53, 54, 55, 56, 57, 58, 59, 60, 61, 255, 255, 255, 255, 255, 255,
    255, 0, 1, 2, 3, 4, 5, 6, 7, 8, 9, 10, 11, 12, 13, 14,
    15, 16, 17, 18, 19, 20, 21, 22, 23, 24, 25, 255, 255, 255, 255, 63,
    255, 26, 27, 28, 29, 30, 31, 32, 33, 34, 35, 36, 37, 38, 39, 40,
    41, 42, 43, 44, 45, 46, 47, 48, 49, 50, 51, 255, 255, 255, 255, 255,
    255, 255, 255, 255, 255, 255, 255, 255, 255, 255, 255, 255, 255, 255, 255, 255,
    255, 255, 255, 255, 255, 255, 255, 255, 255, 255, 255, 255, 255, 255, 255, 255,
    255, 255, 255, 255, 255, 255, 255, 255, 255, 255, 255, 255, 255, 255, 255, 255,
    255, 255, 255, 255, 255, 255, 255, 255, 255, 255, 255, 255, 255, 255, 255, 255,
    255, 255, 255, 255, 255, 255, 255, 255, 255, 255, 255, 255, 255, 255, 255, 255,
    255, 255, 255, 255, 255, 255, 255, 255, 255, 255, 255, 255, 255, 255, 255, 255,
    255, 255, 255, 255, 255, 255, 255, 255, 255, 255, 255, 255, 255, 255, 255, 255,
    255, 255, 255, 255, 255, 255, 255, 255, 255, 255, 255, 255, 255, 255, 255, 255
  >>

\* a table argument is the name of one of the five arrays, or "NULL"
EncTable(enctbl) ==
  IF enctbl = "BASE64MIX_STDENC" THEN BASE64MIX_STDENC ELSE BASE64MIX_URLENC

DecTable(dectbl) ==
  IF dectbl = "BASE64MIX_STDDEC" THEN BASE64MIX_STDDEC
  ELSE IF dectbl = "BASE64MIX_URLDEC" THEN BASE64MIX_URLDEC
  ELSE BASE64MIX_DEC

\* tbl[i] of the C code, i counted from 0
At(tbl, i) == tbl[i + 1]

(***************************************************************************)
(* Bit operations on unsigned values.                                      *)
(***************************************************************************)
\* v >> n
Shr(v, n) == v \div (2^n)

\* v & m for a mask m = 2^k - 1
Mask(v, m) == v % (m + 1)

\* (uint8_t) v
U8(v) == v % 256

\* a | b on unsigned char values
RECURSIVE BitOr(_, _)
BitOr(a, b) ==
  IF a = 0 THEN b
  ELSE IF b = 0 THEN a
  ELSE (IF a % 2 = 1 \/ b % 2 = 1 THEN 1 ELSE 0) + 2 * BitOr(a \div 2, b \div 2)

\* d1 | d2 | ... over a tuple of unsigned char values
RECURSIVE OrAll(_)
OrAll(ds) ==
  IF ds = <<>> THEN 0 ELSE BitOr(Head(ds), OrAll(Tail(ds)))

(***************************************************************************)
(* What a buffer function hands back: its return value, the errno it set   *)
(* (NoErr when it set none), the line of the return statement it left by,  *)
(* and the bytes it stored at dst[0], dst[1], ... before returning (both   *)
(* functions store strictly left to right through ptr).                    *)
(***************************************************************************)
Returns(ret, err, line, wrote) ==
  [ret |-> ret, err |-> err, line |-> line, wrote |-> wrote]

(***************************************************************************)
(* Length calculators.                                                     *)
(***************************************************************************)
\* the length computed by multiplying first, without the test of block
b64m_encoded_len_PostMultiply(len) ==
  SizeT(((len \div 3) + (IF len % 3 # 0 THEN 1 ELSE 0)) * 4)

b64m_encoded_len(len) ==
  LET block == (len \div 3) + (IF len % 3 # 0 THEN 1 ELSE 0)
  IN  IF block > (SIZE_MAX \div 4) THEN SIZE_MAX ELSE block * 4

b64m_decoded_len(enclen) == SizeT(enclen * 3) \div 4

(***************************************************************************)
(* b64m_encode_to_buffer                                                   *)
(***************************************************************************)
\* the capacity test of the encoder with <= for <
EncodeNoSpace_OffByOne(srclen, dstlen) ==
  dstlen <= SizeT(b64m_encoded_len(srclen) + 1)

\* the capacity test of the encoder: dstlen < (b64m_encoded_len(srclen) + 1)
EncodeNoSpace(srclen, dstlen) ==
  dstlen < SizeT(b64m_encoded_len(srclen) + 1)

\* ((uint32_t)cur[0] << 16) | ((uint32_t)cur[1] << 8) | cur[2], cur = src + i
Pack24(src, i) ==
  At(src, i) * 65536 + At(src, i + 1) * 256 + At(src, i + 2)

\* ENCODE_BLOCK with the first index taken from the wrong shift
ENCODE_BLOCK_Shift16(v, enctbl) ==
  << At(EncTable(enctbl), Mask(Shr(v, 16), 63)),
     At(EncTable(enctbl), Mask(Shr(v, 12), 63)),
     At(EncTable(enctbl), Mask(Shr(v, 6), 63)),
     At(EncTable(enctbl), Mask(v, 63)) >>

\* ENCODE_BLOCK(v, out): the four characters stored at out[0..3]
ENCODE_BLOCK(v, enctbl) ==
  << At(EncTable(enctbl), Mask(Shr(v, 18), 63)),
     At(EncTable(enctbl), Mask(Shr(v, 12), 63)),
     At(EncTable(enctbl), Mask(Shr(v, 6), 63)),
     At(EncTable(enctbl), Mask(v, 63)) >>

\* the loop over 4 blocks (12 bytes -> 16 chars) at a time
RECURSIVE EncodeBlocks4(_, _, _, _, _)
EncodeBlocks4(src, i, blocks_4, enctbl, out) ==
  IF i < blocks_4
  THEN EncodeBlocks4(src, i + 12, blocks_4, enctbl,
         out \o ENCODE_BLOCK(Pack24(src, i), enctbl)
             \o ENCODE_BLOCK(Pack24(src, i + 3), enctbl)
             \o ENCODE_BLOCK(Pack24(src, i + 6), enctbl)
             \o ENCODE_BLOCK(Pack24(src, i + 9), enctbl))
  ELSE [i |-> i, out |-> out]

\* the loop over the remaining single blocks (3 bytes -> 4 chars)
RECURSIVE EncodeBlocks1(_, _, _, _, _)
EncodeBlocks1(src, i, n, enctbl, out) ==
  IF i < n
  THEN EncodeBlocks1(src, i + 3, n, enctbl,
         out \o ENCODE_BLOCK(Pack24(src, i), enctbl))
  ELSE [i |-> i, out |-> out]

\* EncodeRemain padding whatever the table
EncodeRemain_AlwaysPad(src, i, remain, enctbl) ==
  IF remain > 0
  THEN LET val == At(src, i) * 65536
                  + (IF remain = 2 THEN At(src, i + 1) * 256 ELSE 0)
           two == << At(EncTable(enctbl), Mask(Shr(val, 18), 63)),
                     At(EncTable(enctbl), Mask(Shr(val, 12), 63)) >>
       IN  IF remain = 2
           THEN two \o << At(EncTable(enctbl), Mask(Shr(val, 6), 63)) >>
                    \o <<PadChar>>
           ELSE two \o <<PadChar, PadChar>>
  ELSE <<>>

\* the remaining 1 or 2 bytes, and the padding of the Standard table
EncodeRemain(src, i, remain, enctbl) ==
  IF remain > 0
  THEN LET val == At(src, i) * 65536
                  + (IF remain = 2 THEN At(src, i + 1) * 256 ELSE 0)
           two == << At(EncTable(enctbl), Mask(Shr(val, 18), 63)),
                     At(EncTable(enctbl), Mask(Shr(val, 12), 63)) >>
       IN  IF remain = 2
           THEN two \o << At(EncTable(enctbl), Mask(Shr(val, 6), 63)) >>
                    \o (IF enctbl = "BASE64MIX_STDENC" THEN <<PadChar>> ELSE <<>>)
           ELSE IF remain = 1 /\ enctbl = "BASE64MIX_STDENC"
           THEN two \o <<PadChar, PadChar>>
           ELSE two
  ELSE <<>>

\* the encoder proper, once the arguments are accepted and srclen > 0
EncodeBody(src, srclen, enctbl) ==
  LET b4  == EncodeBlocks4(src, 0, (srclen \div 12) * 12, enctbl, <<>>)
      b1  == EncodeBlocks1(src, b4.i, (srclen \div 3) * 3, enctbl, b4.out)
      out == b1.out \o EncodeRemain(src, b1.i, srclen - b1.i, enctbl)
  IN  Returns(SizeT(Len(out)), NoErr, 210, out \o <<0>>)

b64m_encode_to_buffer(src, srclen, dst, dstlen, enctbl) ==
  IF src.null \/ dst.null \/ enctbl = "NULL"
  THEN Returns(SIZE_MAX, EINVAL, 121, <<>>)
  ELSE IF EncodeNoSpace(srclen, dstlen)
  THEN Returns(SIZE_MAX, ENOSPC, 127, <<>>)
  ELSE IF srclen = 0
  THEN Returns(0, NoErr, 133, <<0>>)
  ELSE EncodeBody(src.mem, srclen, enctbl)

(***************************************************************************)
(* b64m_decode_to_buffer                                                   *)
(***************************************************************************)
\* the capacity test of the decoder: dstlen < b64m_decoded_len(srclen) + 1
DecodeNoSpace(srclen, dstlen) ==
  dstlen < SizeT(b64m_decoded_len(srclen) + 1)

\* no scan: the trailing '=' stay part of the input
PadScan_NoScan(src, srclen, end, npad) ==
  [toomany |-> FALSE, end |-> end, npad |-> npad]

\* the scan of the trailing '=' from the end; end and cur are offsets into
\* src (cur = 0 throughout this loop).  toomany is the early exit taken when
\* srclen - (end - cur) > 2.
RECURSIVE PadScan(_, _, _, _)
PadScan(src, srclen, end, npad) ==
  IF 0 < end /\ At(src, end - 1) = PadChar
  THEN IF (srclen - (end - 1)) > 2
       THEN [toomany |-> TRUE, end |-> end - 1, npad |-> U8(npad + 1)]
       ELSE PadScan(src, srclen, end - 1, U8(npad + 1))
  ELSE [toomany |-> FALSE, end |-> end, npad |-> npad]

\* the test after the scan looking at the parity of srclen only
PadMisaligned_Parity(npad, srclen) == npad # 0 /\ srclen % 2 # 0

\* the test after the scan left out
PadMisaligned_Never(npad, srclen) == FALSE

\* the test after the scan: if (npad && srclen % 4)
PadMisaligned(npad, srclen) == npad # 0 /\ srclen % 4 # 0

\* dectbl[cur[k]] for the n characters at cur
Lookup(src, cur, n, dectbl) ==
  [k \in 1..n |-> At(DecTable(dectbl), At(src, cur + k - 1))]

\* the validity test of a group of looked-up values: (d0 | d1 | ...) > 63
AnyInvalid(ds) == OrAll(ds) > 63

\* d0 << 18 | d1 << 12 | d2 << 6 | d3 of four 6-bit values: the 24 bits that
\* four characters carry
Pack6x4(a, b, c, d) == a * 262144 + b * 4096 + c * 64 + d

\* Bytes8 with ptr[4] taken from the shift of ptr[5]
Bytes8_SameShift(d) ==
  LET hi == Pack6x4(d[1], d[2], d[3], d[4])
      lo == Pack6x4(d[5], d[6], d[7], d[8])
  IN  << U8(Shr(hi, 16)), U8(Shr(hi, 8)), U8(hi),
         U8(Shr(lo, 16)), U8(lo), U8(lo) >>

\* The 64-bit value v of the 8-character block has d0..d3 in bits 63..40 and
\* d4..d7 in bits 39..16; it is kept as the two 24-bit halves
\* hi = v >> 40 and lo = (v >> 16) & 0xFFFFFF, so that
\* (uint8_t)(v >> 56), (v >> 48), (v >> 40) are the bytes of hi and
\* (uint8_t)(v >> 32), (v >> 24), (v >> 16) the bytes of lo.
Bytes8(d) ==
  LET hi == Pack6x4(d[1], d[2], d[3], d[4])
      lo == Pack6x4(d[5], d[6], d[7], d[8])
  IN  << U8(Shr(hi, 16)), U8(Shr(hi, 8)), U8(hi),
         U8(Shr(lo, 16)), U8(Shr(lo, 8)), U8(lo) >>

\* The 32-bit value v of the 4-character block is w << 8 for the 24-bit
\* w = d1 << 18 | d2 << 12 | d3 << 6 | d4, so that (uint8_t)(v >> 24),
\* (v >> 16), (v >> 8) are the bytes of w.
Bytes4(d) ==
  LET w == Pack6x4(d[1], d[2], d[3], d[4])
  IN  << U8(Shr(w, 16)), U8(Shr(w, 8)), U8(w) >>

\* the loop over 8-character blocks; cur, tail are offsets, out the bytes
\* stored so far
RECURSIVE DecodeBlocks8(_, _, _, _, _)
DecodeBlocks8(src, cur, tail, dectbl, out) ==
  IF cur < tail
  THEN LET d == Lookup(src, cur, 8, dectbl)
       IN  IF AnyInvalid(d)
           THEN [ok |-> FALSE, cur |-> cur, out |-> out]
           ELSE DecodeBlocks8(src, cur + 8, tail, dectbl, out \o Bytes8(d))
  ELSE [ok |-> TRUE, cur |-> cur, out |-> out]

\* the loop over the remaining 4-character blocks
RECURSIVE DecodeBlocks4(_, _, _, _, _)
DecodeBlocks4(src, cur, tail, dectbl, out) ==
  IF cur < tail
  THEN LET d == Lookup(src, cur, 4, dectbl)
       IN  IF AnyInvalid(d)
           THEN [ok |-> FALSE, cur |-> cur, out |-> out]
           ELSE DecodeBlocks4(src, cur + 4, tail, dectbl, out \o Bytes4(d))
  ELSE [ok |-> TRUE, cur |-> cur, out |-> out]

\* the test of a 3-character tail left out
Tail3Illegal_Never(d2) == FALSE

\* RFC 4648 test of a 3-character tail: (d2 & 0x03) != 0
Tail3Illegal(d2) == Mask(d2, 3) # 0

\* the test of the 2-character tail with the mask of the 3-character one
Tail2Illegal_Mask3(d1) == Mask(d1, 3) # 0

\* RFC 4648 test of a 2-character tail: (d1 & 0x0F) != 0
Tail2Illegal(d1) == Mask(d1, 15) # 0

\* if (len >= 2) { ... }, then the terminator and the return
DecodeTail2(src, cur, end, dectbl, out) ==
  IF end - cur >= 2
  THEN LET d == Lookup(src, cur, 2, dectbl)
       IN  IF AnyInvalid(d)
           THEN Returns(SIZE_MAX, EINVAL, 625, out)
           ELSE IF Tail2Illegal(d[2])
           THEN Returns(SIZE_MAX, EILSEQ, 631, out)
           ELSE LET val == d[1] * 64 + d[2]
                    res == out \o << U8(Shr(val, 4)) >>
                IN  Returns(SizeT(Len(res)), NoErr, 648, res \o <<0>>)
  ELSE Returns(SizeT(Len(out)), NoErr, 648, out \o <<0>>)

\* if (len >= 3) { ... } followed by the rest of the function
DecodeTail(src, cur, end, dectbl, out) ==
  IF end - cur >= 3
  THEN LET d == Lookup(src, cur, 3, dectbl)
       IN  IF AnyInvalid(d)
           THEN Returns(SIZE_MAX, EINVAL, 597, out)
           ELSE IF Tail3Illegal(d[3])
           THEN Returns(SIZE_MAX, EILSEQ, 603, out)
           ELSE LET val == d[1] * 4096 + d[2] * 64 + d[3]
                IN  DecodeTail2(src, cur + 3, end, dectbl,
                       out \o << U8(Shr(val, 10)), U8(Shr(val, 2)) >>)
  ELSE DecodeTail2(src, cur, end, dectbl, out)

\* the decoder from the block loops on: src[0..end-1] is the input without
\* its trailing padding
DecodeBody(src, end, dectbl) ==
  LET b8 == DecodeBlocks8(src, 0, (end \div 8) * 8, dectbl, <<>>)
  IN  IF ~b8.ok
      THEN Returns(SIZE_MAX, EINVAL, 537, b8.out)
      ELSE LET b4 == DecodeBlocks4(src, b8.cur,
                       b8.cur + ((end - b8.cur) \div 4) * 4, dectbl, b8.out)
           IN  IF ~b4.ok
               THEN Returns(SIZE_MAX, EINVAL, 570, b4.out)
               ELSE DecodeTail(src, b4.cur, end, dectbl, b4.out)

\* REMAINING_CHARS() after the two block loops, cur having started at 0
RemainingAfterBlocks(end) ==
  LET cur8 == (end \div 8) * 8
      cur4 == cur8 + ((end - cur8) \div 4) * 4
  IN  end - cur4

\* the characters left at cur when the function returns its length: the
\* 3-character and the 2-character steps have taken theirs
RemainingAtReturn(end) ==
  LET len3 == RemainingAfterBlocks(end)
      len2 == IF len3 >= 3 THEN len3 - 3 ELSE len3
  IN  IF len2 >= 2 THEN len2 - 2 ELSE len2

\* the first test of the decoder without the test of srclen
DecodeBadArgs_NoLength(src, srclen, dst, dectbl) ==
  src.null \/ dst.null \/ dectbl = "NULL"

\* the first test of the decoder: a NULL argument or srclen % 4 == 1
DecodeBadArgs(src, srclen, dst, dectbl) ==
  src.null \/ dst.null \/ dectbl = "NULL" \/ (srclen % 4 = 1)

\* the decoder with the padding scan moved in front of the capacity test
b64m_decode_to_buffer_PaddingFirst(src, srclen, dst, dstlen, dectbl) ==
  IF DecodeBadArgs(src, srclen, dst, dectbl)
  THEN Returns(SIZE_MAX, EINVAL, 481, <<>>)
  ELSE LET p == PadScan(src.mem, srclen, srclen, 0)
       IN  IF srclen # 0 /\ p.toomany
           THEN Returns(SIZE_MAX, EINVAL, 506, <<>>)
           ELSE IF srclen # 0 /\ PadMisaligned(p.npad, srclen)
           THEN Returns(SIZE_MAX, EINVAL, 512, <<>>)
           ELSE IF DecodeNoSpace(srclen, dstlen)
           THEN Returns(SIZE_MAX, ENOSPC, 488, <<>>)
           ELSE IF srclen = 0
           THEN Returns(0, NoErr, 494, <<0>>)
           ELSE DecodeBody(src.mem, p.end, dectbl)

b64m_decode_to_buffer(src, srclen, dst, dstlen, dectbl) ==
  IF DecodeBadArgs(src, srclen, dst, dectbl)
  THEN Returns(SIZE_MAX, EINVAL, 481, <<>>)
  ELSE IF DecodeNoSpace(srclen, dstlen)
  THEN Returns(SIZE_MAX, ENOSPC, 488, <<>>)
  ELSE IF srclen = 0
  THEN Returns(0, NoErr, 494, <<0>>)
  ELSE LET p == PadScan(src.mem, srclen, srclen, 0)
       IN  IF p.toomany
           THEN Returns(SIZE_MAX, EINVAL, 506, <<>>)
           ELSE IF PadMisaligned(p.npad, srclen)
           THEN Returns(SIZE_MAX, EINVAL, 512, <<>>)
           ELSE DecodeBody(src.mem, p.end, dectbl)

(***************************************************************************)
(* The allocating functions b64m_encode and b64m_decode.  The heap is the  *)
(* tuple of the states of the blocks malloc handed out, a pointer to a     *)
(* block is its index, NULL is 0.  Whether malloc succeeds is an input of  *)
(* the call, ok; a failing malloc sets errno to ENOMEM.  The result of a   *)
(* call: the pointer returned, the content of *len, errno, the heap, the   *)
(* size of the block asked for, and what the buffer function handed back   *)
(* when it was called.                                                     *)
(***************************************************************************)
malloc(h, ok) ==
  IF ok THEN [heap |-> Append(h, "allocated"), ptr |-> Len(h) + 1]
        ELSE [heap |-> h, ptr |-> NoBlock]

\* a free that releases nothing
free_Nothing(h, b) == h

free(h, b) == [h EXCEPT ![b] = "freed"]

\* the buffer function was not called
NotCalled == Returns(0, NoErr, 0, <<>>)

Allocated(ptr, lenval, err, h, buflen, call) ==
  [res |-> ptr, len |-> lenval, err |-> err, heap |-> h, buflen |-> buflen,
   call |-> call]

b64m_encode(src, len, enctbl, ok) ==
  IF src.null \/ len.null \/ enctbl = "NULL"
  THEN Allocated(NoBlock, len, EINVAL, <<>>, 0, NotCalled)
  ELSE IF b64m_encoded_len(len.val) = SIZE_MAX
  THEN Allocated(NoBlock, len, ERANGE, <<>>, SIZE_MAX, NotCalled)
  ELSE LET buflen == SizeT(b64m_encoded_len(len.val) + 1)
           m == malloc(<<>>, ok)
           r == b64m_encode_to_buffer(src, len.val,
                  Ptr([k \in 1..buflen |-> Untouched]),
                  buflen, enctbl)
       IN  IF m.ptr # NoBlock
           THEN Allocated(m.ptr, Cell(r.ret), r.err,
                          m.heap, buflen, r)
           ELSE Allocated(NoBlock, len, ENOMEM, m.heap, buflen, NotCalled)

b64m_decode(src, len, dectbl, ok) ==
  IF src.null \/ len.null \/ dectbl = "NULL"
  THEN Allocated(NoBlock, len, EINVAL, <<>>, 0, NotCalled)
  ELSE LET buflen == SizeT(b64m_decoded_len(len.val) + 1)
           m == malloc(<<>>, ok)
           r == b64m_decode_to_buffer(src, len.val,
                  Ptr([k \in 1..buflen |-> Untouched]),
                  buflen, dectbl)
       IN  IF m.ptr # NoBlock
           THEN IF r.ret = SIZE_MAX
                THEN Allocated(NoBlock, len, r.err, free(m.heap, m.ptr), buflen, r)
                ELSE Allocated(m.ptr, Cell(r.ret), r.err,
                               m.heap, buflen, r)
           ELSE Allocated(NoBlock, len, ENOMEM, m.heap, buflen, NotCalled)

(***************************************************************************)
(* The Lua binding (base64.c).  A Lua function returns either one value,   *)
(* the result string, or two, nil and the error built from errno.          *)
(***************************************************************************)
LuaString(s) == [n |-> 1, str |-> s, err |-> NoErr]
LuaNilErr(e) == [n |-> 2, str |-> <<>>, err |-> e]
LuaNone == [n |-> 0, str |-> <<>>, err |-> NoErr]

\* pushresultsize(&buf, len): the first len bytes of the buffer
pushresultsize(buf, len) == LuaString(SubSeq(buf, 1, len))

\* the size of the buffer the macro encode_lua prepares
encode_lua_dstlen(len) == SizeT(b64m_encoded_len(len) + 1)

\* the size of the buffer the macro decode_lua prepares
decode_lua_dstlen(len) == SizeT(b64m_decoded_len(len) + 1)

\* the macros' test for the empty string
lua_empty(len) == len = 0

(***************************************************************************)
(* State: one call at a time.  pc is "idle" before the call, "returned"    *)
(* after it and "fault" when the call ran out of the destination and never *)
(* returned.  op names the function called; src, dstlen, tbl are its       *)
(* arguments, dst the destination and its content, ret the value handed    *)
(* back, errno the C errno, retline the return statement taken.  When the  *)
(* decoder was applied to an encoder's output, plain.fed is TRUE and       *)
(* plain.mem, plain.enctbl are the bytes and the table that encoder was    *)
(* given.  When the encoder was applied to a decoder's output, coded.fed   *)
(* is TRUE and coded.mem, coded.dectbl are the characters and the table    *)
(* that decoder was given.  lua is the Lua function's result.  len is the size_t the call   *)
(* was given as its length argument: the parameter of the two length       *)
(* functions, and the cell the allocating functions read the input length  *)
(* from and store the output length to.  res is the pointer an allocating  *)
(* function returned, a block of heap or NoBlock for NULL; heap is the     *)
(* state of every block malloc handed out during the call.                 *)
(***************************************************************************)
VARIABLES pc, op, src, dst, dstlen, tbl, ret, errno, retline, plain, lua,
          len, res, heap, coded

vars == <<pc, op, src, dst, dstlen, tbl, ret, errno, retline, plain, lua,
          len, res, heap, coded>>

\* what the allocating functions and the length functions leave behind
alloc == <<len, res, heap>>

NotFed == [fed |-> FALSE, mem |-> <<>>, enctbl |-> "NULL"]

NotCoded == [fed |-> FALSE, mem |-> <<>>, dectbl |-> "NULL"]

srclen == Len(src.mem)

(***************************************************************************)
(* Inputs.                                                                 *)
(***************************************************************************)
\* all sequences over S of length 0..n
SeqsUpTo(S, n) == UNION {[1..k -> S] : k \in 0..n}

Fill(c, n) == [k \in 1..n |-> c]

Max(a, b) == IF a > b THEN a ELSE b

\* bytes to encode: a head of whole 3-byte groups, then every short tail
HeadText ==
  << 77, 97, 110,   251, 239, 190,   0, 16, 131,   255, 255, 254,
     1, 128, 64,    105, 183, 29,    200, 3, 77,   20, 251, 240,
     121, 32, 104 >>

ByteVals == {0, 1, 77, 251, 255}

EncodeInputs ==
  { SubSeq(HeadText, 1, 3 * g) \o t :
      g \in 0..MaxHeadGroups, t \in SeqsUpTo(ByteVals, MaxEncTail) }

\* characters to decode: a head of whole 4-character blocks valid in all
\* three tables, then every short tail over 'A' 'B' 'E' '/' '_' '='
HeadBase64 ==
  << 84, 87, 70, 117,   101, 83, 66, 111,   89, 87, 53, 107,
     99, 121, 66, 116,  89, 87, 116, 108,   73, 71, 120, 112,
     90, 50, 104, 48 >>

DecChars == {65, 66, 69, 47, 95, PadChar}

\* "-_"  "/w=="  "_w"  "+/"  "+/-_"  "A!AA"  "Zm9v"
ExampleInputs ==
  { <<45, 95>>, <<47, 119, 61, 61>>, <<95, 119>>, <<43, 47>>,
    <<43, 47, 45, 95>>, <<65, 33, 65, 65>>, <<90, 109, 57, 118>> }

DecodeInputs ==
  { SubSeq(HeadBase64, 1, 4 * b) \o t :
      b \in 0..MaxHeadBlocks, t \in SeqsUpTo(DecChars, MaxDecTail) }
  \cup ExampleInputs

\* long inputs, up to the largest size_t: one content for every length
LongEncodeInputs == { Fill(255, n) : n \in 0..SIZE_MAX }
LongDecodeInputs == { Fill(65, n) : n \in 0..SIZE_MAX }

EncTables == {"BASE64MIX_STDENC", "BASE64MIX_URLENC"}
DecTables == {"BASE64MIX_STDDEC", "BASE64MIX_URLDEC", "BASE64MIX_DEC"}

\* destination capacities tried for a call whose capacity test compares
\* dstlen with need: the small ones, the two around need, the largest
Capacities(need) ==
  ((0..MaxDstLen) \cup {need - 1, need, SIZE_MAX}) \cap (0..SIZE_MAX)

\* a destination of dstlen cells nothing has been stored in
Fresh(n) == Ptr(Fill(Untouched, n))

\* argument tuples with one NULL pointer
NullCalls(tables) ==
  { [src |-> NULL, dst |-> Fresh(SIZE_MAX), tbl |-> t] : t \in tables }
  \cup { [src |-> Ptr(s), dst |-> NULL, tbl |-> t] :
           s \in {<<>>, <<65, 65>>}, t \in tables }
  \cup { [src |-> Ptr(s), dst |-> Fresh(SIZE_MAX), tbl |-> "NULL"] :
           s \in {<<>>, <<65, 65>>} }

(***************************************************************************)
(* The effect of a call on the caller's memory.  The callee stored         *)
(* r.wrote at dst[0..]; when that is longer than the destination the call  *)
(* has undefined behaviour: it either returns, having overwritten what     *)
(* lies behind the destination (kept in dst.mem beyond dstlen), or it      *)
(* faults at some store behind the destination and never returns.  The     *)
(* source and the cells stored in are disjoint objects of one address      *)
(* space of SIZE_MAX + 1 bytes, address 0 being NULL: a call that stores   *)
(* more cells than fit beside its source cannot return.                    *)
(***************************************************************************)
Store(mem, wrote) ==
  [k \in 1..Max(Len(mem), Len(wrote)) |->
     IF k <= Len(wrote) THEN wrote[k] ELSE mem[k]]

Overrun(r, d) == ~d.null /\ Len(r.wrote) > Len(d.mem)

Outcomes(r, s, d) ==
  IF ~Overrun(r, d) THEN {"returned"}
  ELSE IF Len(s.mem) + Len(r.wrote) > SIZE_MAX THEN {"fault"}
  ELSE {"returned", "fault"}

\* the state after the call r on destination d ended in outcome o
Ended(r, d, o) ==
  /\ pc' = o
  /\ dst' = IF o = "returned" THEN [d EXCEPT !.mem = Store(d.mem, r.wrote)]
            ELSE [d EXCEPT !.mem = SubSeq(r.wrote, 1, Len(d.mem))]
  /\ ret' = IF o = "returned" THEN r.ret ELSE ret
  /\ errno' = IF o = "returned" /\ r.err # NoErr THEN r.err ELSE errno
  /\ retline' = IF o = "returned" THEN r.line ELSE 0

Init ==
  /\ pc = "idle"
  /\ op = "none"
  /\ src = NULL
  /\ dst = NULL
  /\ dstlen = 0
  /\ tbl = "NULL"
  /\ ret = 0
  /\ errno = NoErr
  /\ retline = 0
  /\ plain = NotFed
  /\ coded = NotCoded
  /\ lua = LuaNone
  /\ len = NoCell
  /\ res = NoBlock
  /\ heap = <<>>

(***************************************************************************)
(* Calls of the buffer functions.                                          *)
(***************************************************************************)
EncodeCall(s, d, n, t) ==
  /\ op' = "b64m_encode_to_buffer"
  /\ src' = s
  /\ dstlen' = n
  /\ tbl' = t
  /\ \E o \in Outcomes(b64m_encode_to_buffer(s, Len(s.mem), d, n, t), s, d) :
       Ended(b64m_encode_to_buffer(s, Len(s.mem), d, n, t), d, o)
  /\ UNCHANGED <<plain, lua, alloc>>

DecodeCall(s, d, n, t) ==
  /\ op' = "b64m_decode_to_buffer"
  /\ src' = s
  /\ dstlen' = n
  /\ tbl' = t
  /\ \E o \in Outcomes(b64m_decode_to_buffer(s, Len(s.mem), d, n, t), s, d) :
       Ended(b64m_decode_to_buffer(s, Len(s.mem), d, n, t), d, o)
  /\ UNCHANGED <<lua, alloc>>

\* a caller encodes some bytes into a buffer of its own
CallEncode ==
  /\ pc = "idle"
  /\ \E s \in EncodeInputs \cup LongEncodeInputs, t \in EncTables :
       \E n \in Capacities(SizeT(b64m_encoded_len(Len(s)) + 1)) :
          /\ EncodeCall(Ptr(s), Fresh(n), n, t)
          /\ UNCHANGED coded

\* a caller decodes some characters into a buffer of its own
CallDecode ==
  /\ pc = "idle"
  /\ \E s \in DecodeInputs \cup LongDecodeInputs, t \in DecTables :
       \E n \in Capacities(SizeT(b64m_decoded_len(Len(s)) + 1)) :
          /\ DecodeCall(Ptr(s), Fresh(n), n, t)
          /\ UNCHANGED <<plain, coded>>

\* a caller passes a NULL pointer to the encoder
CallEncodeNull ==
  /\ pc = "idle"
  /\ \E a \in NullCalls(EncTables), n \in {0, SIZE_MAX} :
       /\ EncodeCall(a.src, a.dst, n, a.tbl)
       /\ UNCHANGED coded

\* a caller passes a NULL pointer to the decoder
CallDecodeNull ==
  /\ pc = "idle"
  /\ \E a \in NullCalls(DecTables), n \in {0, SIZE_MAX} :
       /\ DecodeCall(a.src, a.dst, n, a.tbl)
       /\ UNCHANGED <<plain, coded>>

\* a caller decodes what the encoder has just produced
DecodeEncoded ==
  /\ pc = "returned"
  /\ op = "b64m_encode_to_buffer"
  /\ ~coded.fed
  /\ ret # SIZE_MAX
  /\ Len(dst.mem) <= dstlen
  /\ \E t \in DecTables :
       \E n \in Capacities(SizeT(b64m_decoded_len(ret) + 1)) :
          /\ DecodeCall(Ptr(SubSeq(dst.mem, 1, ret)), Fresh(n), n, t)
          /\ plain' = [fed |-> TRUE, mem |-> src.mem, enctbl |-> tbl]
          /\ UNCHANGED coded

\* a caller encodes what the decoder has just produced
EncodeDecoded ==
  /\ pc = "returned"
  /\ op = "b64m_decode_to_buffer"
  /\ ~plain.fed
  /\ ret # SIZE_MAX
  /\ Len(dst.mem) <= dstlen
  /\ \E t \in EncTables :
       \E n \in Capacities(SizeT(b64m_encoded_len(ret) + 1)) :
          /\ EncodeCall(Ptr(SubSeq(dst.mem, 1, ret)), Fresh(n), n, t)
          /\ coded' = [fed |-> TRUE, mem |-> src.mem, dectbl |-> tbl]

(***************************************************************************)
(* Calls of the Lua functions: the macros encode_lua and decode_lua with   *)
(* the buffer function fn each of the five functions passes.  errno is     *)
(* cleared before fn is called.                                            *)
(***************************************************************************)
\* the values the macro returns once fn handed back r on the buffer d
LuaResult(r, d) ==
  IF r.ret # SIZE_MAX
  THEN pushresultsize(Store(d.mem, r.wrote), r.ret)
  ELSE LuaNilErr(r.err)

\* the macro's early return for the empty string: fn is not called
LuaEmpty(name, s, t) ==
  /\ op' = name
  /\ src' = Ptr(s)
  /\ tbl' = t
  /\ pc' = "returned"
  /\ lua' = LuaString(<<>>)
  /\ UNCHANGED <<dst, dstlen, ret, errno, retline, plain, coded, alloc>>

\* the macro from prepbuffer on, fn having handed back r
LuaCalled(name, s, t, n, r) ==
  /\ op' = name
  /\ src' = Ptr(s)
  /\ tbl' = t
  /\ dstlen' = n
  /\ \E o \in Outcomes(r, Ptr(s), Fresh(n)) :
       /\ pc' = o
       /\ dst' = IF o = "returned" THEN Ptr(Store(Fresh(n).mem, r.wrote))
                 ELSE Ptr(SubSeq(r.wrote, 1, n))
       /\ ret' = IF o = "returned" THEN r.ret ELSE ret
       /\ errno' = IF o = "returned" THEN r.err ELSE NoErr
       /\ retline' = IF o = "returned" THEN r.line ELSE 0
       /\ lua' = IF o = "returned" THEN LuaResult(r, Fresh(n)) ELSE LuaNone
  /\ UNCHANGED <<plain, coded, alloc>>

encode_lua(name, s, t) ==
  IF lua_empty(Len(s))
  THEN LuaEmpty(name, s, t)
  ELSE LuaCalled(name, s, t, encode_lua_dstlen(Len(s)),
         b64m_encode_to_buffer(Ptr(s), Len(s),
           Fresh(encode_lua_dstlen(Len(s))), encode_lua_dstlen(Len(s)), t))

decode_lua(name, s, t) ==
  IF lua_empty(Len(s))
  THEN LuaEmpty(name, s, t)
  ELSE LuaCalled(name, s, t, decode_lua_dstlen(Len(s)),
         b64m_decode_to_buffer(Ptr(s), Len(s),
           Fresh(decode_lua_dstlen(Len(s))), decode_lua_dstlen(Len(s)), t))

encode_std_lua ==
  /\ pc = "idle"
  /\ \E s \in EncodeInputs \cup LongEncodeInputs :
       encode_lua("encode_std_lua", s, "BASE64MIX_STDENC")

encode_url_lua ==
  /\ pc = "idle"
  /\ \E s \in EncodeInputs \cup LongEncodeInputs :
       encode_lua("encode_url_lua", s, "BASE64MIX_URLENC")

decode_std_lua ==
  /\ pc = "idle"
  /\ \E s \in DecodeInputs \cup LongDecodeInputs :
       decode_lua("decode_std_lua", s, "BASE64MIX_STDDEC")

decode_url_lua ==
  /\ pc = "idle"
  /\ \E s \in DecodeInputs \cup LongDecodeInputs :
       decode_lua("decode_url_lua", s, "BASE64MIX_URLDEC")

decode_mix_lua ==
  /\ pc = "idle"
  /\ \E s \in DecodeInputs \cup LongDecodeInputs :
       decode_lua("decode_mix_lua", s, "BASE64MIX_DEC")

(***************************************************************************)
(* Calls of the allocating functions.  *len holds the length of src on     *)
(* entry.  The block the call allocated is shown as dst, its size as       *)
(* dstlen; ret and retline are those of the buffer function when the call  *)
(* reached it.                                                             *)
(***************************************************************************)
\* argument tuples of an allocating function with one NULL pointer
NullAllocCalls(tables) ==
  { [src |-> NULL, len |-> Cell(0), tbl |-> t] : t \in tables }
  \cup { [src |-> Ptr(s), len |-> NoCell, tbl |-> t] :
           s \in {<<>>, <<65, 65>>}, t \in tables }
  \cup { [src |-> Ptr(s), len |-> Cell(Len(s)), tbl |-> "NULL"] :
           s \in {<<>>, <<65, 65>>} }

AllocCall(name, s, t, a) ==
  /\ op' = name
  /\ src' = s
  /\ tbl' = t
  /\ dstlen' = a.buflen
  /\ \E o \in Outcomes(a.call, s, Fresh(a.buflen)) :
       /\ pc' = o
       /\ dst' = IF a.heap = <<>> THEN NULL
                 ELSE IF o = "returned"
                 THEN Ptr(Store(Fresh(a.buflen).mem, a.call.wrote))
                 ELSE Ptr(SubSeq(a.call.wrote, 1, a.buflen))
       /\ len' = IF o = "returned" THEN a.len ELSE len
       /\ res' = IF o = "returned" THEN a.res ELSE res
       /\ heap' = IF o = "returned" THEN a.heap ELSE <<"allocated">>
       /\ ret' = IF o = "returned" THEN a.call.ret ELSE ret
       /\ errno' = IF o = "returned" THEN a.err ELSE NoErr
       /\ retline' = IF o = "returned" THEN a.call.line ELSE 0
  /\ UNCHANGED <<plain, coded, lua>>

CallEncodeAlloc ==
  /\ pc = "idle"
  /\ \E s \in EncodeInputs \cup LongEncodeInputs, t \in EncTables,
        ok \in BOOLEAN :
        AllocCall("b64m_encode", Ptr(s), t,
                  b64m_encode(Ptr(s), Cell(Len(s)), t, ok))

CallDecodeAlloc ==
  /\ pc = "idle"
  /\ \E s \in DecodeInputs \cup LongDecodeInputs, t \in DecTables,
        ok \in BOOLEAN :
        AllocCall("b64m_decode", Ptr(s), t,
                  b64m_decode(Ptr(s), Cell(Len(s)), t, ok))

CallEncodeAllocNull ==
  /\ pc = "idle"
  /\ \E a \in NullAllocCalls(EncTables), ok \in BOOLEAN :
        AllocCall("b64m_encode", a.src, a.tbl,
                  b64m_encode(a.src, a.len, a.tbl, ok))

CallDecodeAllocNull ==
  /\ pc = "idle"
  /\ \E a \in NullAllocCalls(DecTables), ok \in BOOLEAN :
        AllocCall("b64m_decode", a.src, a.tbl,
                  b64m_decode(a.src, a.len, a.tbl, ok))

(***************************************************************************)
(* Calls of the two length functions, with every size_t as argument.       *)
(***************************************************************************)
LengthCall(name, n, r) ==
  /\ pc' = "returned"
  /\ op' = name
  /\ len' = Cell(n)
  /\ ret' = r
  /\ UNCHANGED <<src, dst, dstlen, tbl, errno, retline, plain, coded, lua,
               res, heap>>

CallEncodedLen ==
  /\ pc = "idle"
  /\ \E n \in 0..SIZE_MAX : LengthCall("b64m_encoded_len", n, b64m_encoded_len(n))

CallDecodedLen ==
  /\ pc = "idle"
  /\ \E n \in 0..SIZE_MAX : LengthCall("b64m_decoded_len", n, b64m_decoded_len(n))

(***************************************************************************)
(* One lookup in a table, as the encoder does with each 6-bit index        *)
(* (enctbl[i], the index kept in len) and the decoder with each character  *)
(* (dectbl[c], the character kept in src); ret is the entry read.          *)
(***************************************************************************)
LookupCall(name, t, i, s, v) ==
  /\ pc' = "returned"
  /\ op' = name
  /\ tbl' = t
  /\ len' = i
  /\ src' = s
  /\ ret' = v
  /\ UNCHANGED <<dst, dstlen, errno, retline, plain, coded, lua, res, heap>>

LookupEncTable ==
  /\ pc = "idle"
  /\ \E t \in EncTables, i \in 0..63 :
       LookupCall("enctbl[i]", t, Cell(i), src, EncTable(t)[i + 1])

LookupDecTable ==
  /\ pc = "idle"
  /\ \E t \in DecTables, c \in 0..255 :
       LookupCall("dectbl[c]", t, len, Ptr(<<c>>), At(DecTable(t), c))

Next ==
  \/ CallEncode
  \/ CallDecode
  \/ CallEncodeNull
  \/ CallDecodeNull
  \/ DecodeEncoded
  \/ EncodeDecoded
  \/ encode_std_lua
  \/ encode_url_lua
  \/ decode_std_lua
  \/ decode_url_lua
  \/ decode_mix_lua
  \/ CallEncodeAlloc
  \/ CallDecodeAlloc
  \/ CallEncodeAllocNull
  \/ CallDecodeAllocNull
  \/ LookupEncTable
  \/ LookupDecTable
  \/ CallEncodedLen
  \/ CallDecodedLen

Spec == Init /\ [][Next]_vars

(***************************************************************************)
(* Vocabulary of the properties.                                           *)
(***************************************************************************)
Encoder == "b64m_encode_to_buffer"
Decoder == "b64m_decode_to_buffer"

\* the call of function f is over, with or without a return
Over(f) == pc # "idle" /\ op = f

\* the call of function f returned
Returned(f) == pc = "returned" /\ op = f

\* the call returned a length, not the error value
Succeeded(f) == Returned(f) /\ ret # SIZE_MAX

\* the call returned the error value with errno e
Failed(f, e) == Returned(f) /\ ret = SIZE_MAX /\ errno = e

\* no argument of the call is NULL
NonNull == ~src.null /\ ~dst.null /\ tbl # "NULL"

\* no cell of the destination has been stored in, none behind it either
NothingWritten == dst.mem = Fill(Untouched, Len(dst.mem)) /\ Len(dst.mem) <= dstlen

\* the first ret cells of the destination: the output of a successful call
Output == SubSeq(dst.mem, 1, ret)

\* the return statements of the decoder that report an invalid character
CharLines == {537, 570, 597, 625}

\* the return statements of the decoder that report malformed padding
PadLines == {506, 512}

\* the number of '=' at the end of a sequence
RECURSIVE TrailingPads(_)
TrailingPads(s) ==
  IF s # <<>> /\ s[Len(s)] = PadChar
  THEN 1 + TrailingPads(SubSeq(s, 1, Len(s) - 1))
  ELSE 0

\* decodedLength(n) + 1 = floor(3 * n / 4) + 1 in unbounded arithmetic
ExactDecodeCapacity(n) == ((3 * n) \div 4) + 1

\* the encoding table and the decoding table of a round trip
C1_Pairs ==
  { <<"BASE64MIX_STDENC", "BASE64MIX_STDDEC">>,
    <<"BASE64MIX_URLENC", "BASE64MIX_URLDEC">>,
    <<"BASE64MIX_STDENC", "BASE64MIX_DEC">> }

(***************************************************************************)
(* C1.  Round trip: decoding, into a buffer of the required capacity, what *)
(* the encoder produced from the bytes B gives back exactly B, for the     *)
(* Standard encoding decoded with the Standard or the Mixed table and for  *)
(* the URL-safe encoding decoded with the URL-safe table.                  *)
(***************************************************************************)
C1_RoundTrip ==
  ( /\ Over(Decoder)
    /\ plain.fed
    /\ <<plain.enctbl, tbl>> \in C1_Pairs
    /\ dstlen >= ExactDecodeCapacity(srclen) )
  => /\ Succeeded(Decoder)
     /\ ret = Len(plain.mem)
     /\ Output = plain.mem

\* 14 bytes (one batch of 12 and a 2-byte tail) went through the Standard
\* encoder and the Mixed decoder
C1_Witness ==
  /\ Succeeded(Decoder)
  /\ plain.fed
  /\ plain.enctbl = "BASE64MIX_STDENC"
  /\ tbl = "BASE64MIX_DEC"
  /\ Len(plain.mem) = 14
  /\ Output = plain.mem

\* v = b0*65536 + b1*256 + b2 of group g of the input, g from 0
C2_Value(g) ==
  src.mem[3 * g + 1] * 65536 + src.mem[3 * g + 2] * 256 + src.mem[3 * g + 3]

\* the table symbol at index (v >> (18 - 6k)) & 63, k = 0..3
C2_Symbol(g, k) ==
  EncTable(tbl)[((C2_Value(g) \div (2 ^ (18 - 6 * k))) % 64) + 1]

(***************************************************************************)
(* C2.  Every successful encoder call stores, for each complete 3-byte     *)
(* group g of the input in input order, the table symbols at the indices   *)
(* (v>>18)&63, (v>>12)&63, (v>>6)&63, v&63 of v = b0*65536 + b1*256 + b2,  *)
(* whether the group went through the batch of four or the single loop.    *)
(***************************************************************************)
C2_EncodeMatchesReference ==
  Succeeded(Encoder)
  => \A g \in 0..((srclen \div 3) - 1) :
       \A k \in 0..3 : dst.mem[4 * g + k + 1] = C2_Symbol(g, k)

\* 17 bytes: one batch of four groups, one single group, a 2-byte tail
C2_Witness ==
  /\ Succeeded(Encoder)
  /\ srclen = 17
  /\ ret = 23

\* the two characters "-_"
C3_Input == <<45, 95>>

(***************************************************************************)
(* C3 as stated.  Decoding "-_" with the Mixed table succeeds; with the    *)
(* Standard table it fails with the invalid-character error.               *)
(***************************************************************************)
C3_Original ==
  ( /\ Returned(Decoder)
    /\ NonNull
    /\ src.mem = C3_Input
    /\ dstlen >= ExactDecodeCapacity(srclen) )
  => /\ tbl = "BASE64MIX_DEC" => Succeeded(Decoder)
     /\ tbl = "BASE64MIX_STDDEC"
          => Failed(Decoder, EINVAL) /\ retline \in CharLines

(***************************************************************************)
(* C3 as amended.  Decoding "-_" with the Mixed table passes the           *)
(* invalid-character test and fails only with the illegal-sequence error   *)
(* (the 2-character tail ends in value 63, whose low 4 bits are not zero); *)
(* with the Standard table it fails with the invalid-character error.      *)
(***************************************************************************)
C3_MixedAcceptsCharacters ==
  ( /\ Returned(Decoder)
    /\ NonNull
    /\ src.mem = C3_Input
    /\ dstlen >= ExactDecodeCapacity(srclen) )
  => /\ tbl = "BASE64MIX_DEC"
          => Failed(Decoder, EILSEQ) /\ retline = 631
     /\ tbl = "BASE64MIX_STDDEC"
          => Failed(Decoder, EINVAL) /\ retline \in CharLines

C3_Witness ==
  /\ Failed(Decoder, EILSEQ)
  /\ src.mem = C3_Input
  /\ tbl = "BASE64MIX_DEC"
  /\ dstlen = 2

(***************************************************************************)
(* C4 as stated.  Whenever the destination capacity is below               *)
(* encodedLength(len) + 1, the overflow marker included, the encoder       *)
(* fails with ENOSPC and stores nothing.                                   *)
(***************************************************************************)
C4_Original ==
  ( /\ Over(Encoder)
    /\ NonNull
    /\ dstlen < b64m_encoded_len(srclen) + 1 )
  => /\ Failed(Encoder, ENOSPC)
     /\ NothingWritten

LuaFunctions ==
  { "encode_std_lua", "encode_url_lua",
    "decode_std_lua", "decode_url_lua", "decode_mix_lua" }

\* the call returned 0 and the terminator is at dst[0]
C6_ZeroLengthResult ==
  /\ pc = "returned"
  /\ ret = 0
  /\ Len(dst.mem) >= 1
  /\ dst.mem[1] = 0

\* a Lua function given the empty string returned the empty string
C6_LuaEmpty ==
  (pc # "idle" /\ op \in LuaFunctions /\ srclen = 0)
  => pc = "returned" /\ lua = LuaString(<<>>)

(***************************************************************************)
(* C6 as stated.  A call of the encoder or of the decoder with input       *)
(* length 0 and any of the tables returns 0 and leaves the terminator at   *)
(* dst[0], never an error; the five Lua functions return the empty string  *)
(* for the empty string.                                                   *)
(***************************************************************************)
C6_Original ==
  /\ ( /\ Over(Encoder) \/ Over(Decoder)
       /\ srclen = 0
       /\ tbl # "NULL" )
     => C6_ZeroLengthResult
  /\ C6_LuaEmpty

(***************************************************************************)
(* C6 as amended.  A call of the encoder or of the decoder with input      *)
(* length 0, non-NULL src, dst and table and a destination of at least one *)
(* byte returns 0 and leaves the terminator at dst[0], never an error; the *)
(* five Lua functions return the empty string for the empty string.        *)
(***************************************************************************)
C6_ZeroLength ==
  /\ ( /\ Over(Encoder) \/ Over(Decoder)
       /\ srclen = 0
       /\ NonNull
       /\ dstlen >= 1 )
     => C6_ZeroLengthResult
  /\ C6_LuaEmpty

\* the decoder was given the empty input and a destination of one byte
C6_Witness ==
  /\ Succeeded(Decoder)
  /\ NonNull
  /\ srclen = 0
  /\ dstlen = 1
  /\ dst.mem = <<0>>

\* the decoder call got past its first two tests
C7_PassesLengthAndCapacity ==
  /\ Over(Decoder)
  /\ NonNull
  /\ srclen % 4 # 1
  /\ dstlen >= SizeT(b64m_decoded_len(srclen) + 1)

(***************************************************************************)
(* C7.  Of the decoder inputs that pass the length and capacity tests,     *)
(* those ending in more than two '=' and those ending in one or two '='    *)
(* with a length that is no multiple of 4 fail with the invalid-padding    *)
(* error; those ending in one or two '=' with a length that is a multiple  *)
(* of 4 are not rejected by the padding scan.                              *)
(***************************************************************************)
C7_PaddingRejection ==
  C7_PassesLengthAndCapacity
  => LET n == TrailingPads(src.mem)
     IN  /\ (n > 2 \/ (n \in {1, 2} /\ srclen % 4 # 0))
              => Failed(Decoder, EINVAL) /\ retline \in PadLines
         /\ (n \in {1, 2} /\ srclen % 4 = 0)
              => retline \notin PadLines

\* "A===" was rejected for its padding
C7_Witness ==
  /\ Failed(Decoder, EINVAL)
  /\ src.mem = <<65, 61, 61, 61>>
  /\ retline = 506

\* the number of characters before the trailing padding
C8_Payload == srclen - TrailingPads(src.mem)

\* the 6-bit value (or 0xFF) of character k of the input, k from 1
C8_Value(k) == At(DecTable(tbl), src.mem[k])

\* every character before the trailing padding is in the table
C8_AllValid == \A k \in 1..C8_Payload : C8_Value(k) <= 63

\* the characters before the padding end in a tail with spare bits set
C8_TailNotCanonical ==
  \/ C8_Payload % 4 = 3 /\ C8_Value(C8_Payload) % 4 # 0
  \/ C8_Payload % 4 = 2 /\ C8_Value(C8_Payload) % 16 # 0

\* "/w==" decodes to the byte 0xFF
C8_Example ==
  (src.mem = <<47, 119, 61, 61>> /\ tbl \in {"BASE64MIX_STDDEC", "BASE64MIX_DEC"})
  => Succeeded(Decoder) /\ Output = <<255>>

(***************************************************************************)
(* C8 as stated.  When all characters before the trailing padding are      *)
(* valid, the decoder fails with EILSEQ if and only if these characters    *)
(* end in a 3-character tail whose last value has non-zero low 2 bits or   *)
(* in a 2-character tail whose last value has non-zero low 4 bits; "/w=="  *)
(* decodes to the single byte 0xFF.  (Stated here for calls with non-NULL  *)
(* arguments that pass the capacity test.)                                 *)
(***************************************************************************)
C8_Original ==
  ( /\ Over(Decoder)
    /\ NonNull
    /\ dstlen >= SizeT(b64m_decoded_len(srclen) + 1)
    /\ C8_AllValid )
  => /\ Failed(Decoder, EILSEQ) <=> C8_TailNotCanonical
     /\ C8_Example

\* at most two trailing '=', and none unless the length is a multiple of 4
C8_PassesPadding ==
  LET n == TrailingPads(src.mem)
  IN  n <= 2 /\ (n > 0 => srclen % 4 = 0)

(***************************************************************************)
(* C8 as amended.  When the input passes the length, capacity and padding  *)
(* tests and all characters before the trailing padding are valid, the     *)
(* decoder fails with EILSEQ if and only if these characters end in a      *)
(* 3-character tail whose last value has non-zero low 2 bits or in a       *)
(* 2-character tail whose last value has non-zero low 4 bits; "/w=="       *)
(* decodes to the single byte 0xFF.                                        *)
(***************************************************************************)
C8_CanonicalBits ==
  ( /\ C7_PassesLengthAndCapacity
    /\ C8_PassesPadding
    /\ C8_AllValid )
  => /\ Failed(Decoder, EILSEQ) <=> C8_TailNotCanonical
     /\ C8_Example

\* "AB==" was rejected for the low bits of 'B'
C8_Witness ==
  /\ Failed(Decoder, EILSEQ)
  /\ src.mem = <<65, 66, 61, 61>>
  /\ retline = 631

(***************************************************************************)
(* C9 as stated.  After every successful call of the encoder or of the     *)
(* decoder with return value r: r < dstlen, dst[r] is the terminator, and  *)
(* no cell of index greater than r has been stored in, none at an index    *)
(* >= dstlen in particular.                                                *)
(***************************************************************************)
C9_Original ==
  (Succeeded(Encoder) \/ Succeeded(Decoder))
  => /\ ret < dstlen
     /\ Len(dst.mem) <= dstlen
     /\ dst.mem[ret + 1] = 0
     /\ \A k \in (ret + 2)..Len(dst.mem) : dst.mem[k] = Untouched

\* characters the URL-safe encoder emits for r leftover bytes
C10_TailLength(r) == IF r = 0 THEN 0 ELSE r + 1

(***************************************************************************)
(* C10.  A successful Standard encoding of n bytes has b64m_encoded_len(n) *)
(* characters and ends in "==" when n mod 3 = 1, in one '=' when           *)
(* n mod 3 = 2 and in no '=' when n mod 3 = 0; a successful URL-safe       *)
(* encoding holds no '=' and has 4*(n div 3) + 0, 2, 3 characters for      *)
(* n mod 3 = 0, 1, 2.                                                      *)
(***************************************************************************)
C10_EncodeTail ==
  Succeeded(Encoder)
  => /\ tbl = "BASE64MIX_STDENC"
          => /\ ret = b64m_encoded_len(srclen)
             /\ TrailingPads(Output) = (3 - (srclen % 3)) % 3
     /\ tbl = "BASE64MIX_URLENC"
          => /\ ret = 4 * (srclen \div 3) + C10_TailLength(srclen % 3)
             /\ \A k \in 1..ret : Output[k] # PadChar

\* 14 bytes encoded with the URL-safe table: 16 + 3 characters
C10_Witness ==
  /\ Succeeded(Encoder)
  /\ tbl = "BASE64MIX_URLENC"
  /\ srclen = 14
  /\ ret = 19

\* ceil(n / 3), in unbounded arithmetic
C11_Groups(n) == (n + 2) \div 3

(***************************************************************************)
(* C11.  For every size_t n, b64m_encoded_len(n) is 4 * ceil(n / 3) when   *)
(* ceil(n / 3) <= SIZE_MAX / 4 and the overflow marker SIZE_MAX otherwise  *)
(* (0 -> 0, 1 -> 4, 2 -> 4, 3 -> 4, 4 -> 8); the value is never a wrapped  *)
(* one below the true length.                                              *)
(***************************************************************************)
C11_EncodedLength ==
  (pc = "returned" /\ op = "b64m_encoded_len")
  => /\ IF C11_Groups(len.val) <= SIZE_MAX \div 4
        THEN ret = 4 * C11_Groups(len.val)
        ELSE ret = SIZE_MAX
     /\ ret = SIZE_MAX \/ ret >= 4 * C11_Groups(len.val)
     /\ len.val = 0 => ret = 0
     /\ len.val \in 1..3 => ret = 4
     /\ len.val = 4 => ret = 8

\* the first length whose group count is above SIZE_MAX / 4 gave the marker
C11_Witness ==
  /\ pc = "returned"
  /\ op = "b64m_encoded_len"
  /\ C11_Groups(len.val) = (SIZE_MAX \div 4) + 1
  /\ ret = SIZE_MAX

\* the forward table a strict reverse table belongs to
C12_Forward(dectbl) ==
  IF dectbl = "BASE64MIX_URLDEC" THEN BASE64MIX_URLENC ELSE BASE64MIX_STDENC

\* '0'..'9', 'A'..'Z', 'a'..'z'
C12_Alphanumerics == (48..57) \cup (65..90) \cup (97..122)

\* the entry an exact inverse of the forward table enc has for the byte c:
\* the index of c in enc, and 0xFF for a byte that is no symbol of enc
C12_Inverse(enc, c) ==
  IF \E i \in 0..63 : enc[i + 1] = c
  THEN CHOOSE i \in 0..63 : enc[i + 1] = c
  ELSE 255

\* the entry of the Mixed table for the byte c
C12_Mixed(c) ==
  IF c \in {43, 45} THEN 62
  ELSE IF c \in {47, 95} THEN 63
  ELSE IF c \in C12_Alphanumerics THEN At(BASE64MIX_STDDEC, c)
  ELSE 255

(***************************************************************************)
(* C12.  Each forward table has 64 pairwise distinct symbols and its       *)
(* reverse table maps symbol i back to i; the Standard and the URL-safe    *)
(* reverse tables map every byte that is no symbol of their alphabet, '='  *)
(* included, to 0xFF; the Mixed table maps '+' and '-' to 62, '/' and '_'  *)
(* to 63, agrees with the Standard table on the alphanumerics and maps     *)
(* every other byte to 0xFF.  Stated of every entry of the five tables.    *)
(***************************************************************************)
C12_AlphabetTables ==
  /\ (pc = "returned" /\ op = "enctbl[i]")
       => /\ Len(EncTable(tbl)) = 64
          /\ \A j \in (0..63) \ {len.val} : EncTable(tbl)[j + 1] # ret
          /\ tbl = "BASE64MIX_STDENC" => At(BASE64MIX_STDDEC, ret) = len.val
          /\ tbl = "BASE64MIX_URLENC" => At(BASE64MIX_URLDEC, ret) = len.val
  /\ (pc = "returned" /\ op = "dectbl[c]")
       => /\ Len(DecTable(tbl)) = 256
          /\ IF tbl = "BASE64MIX_DEC"
             THEN ret = C12_Mixed(src.mem[1])
             ELSE ret = C12_Inverse(C12_Forward(tbl), src.mem[1])
          /\ src.mem[1] = PadChar => ret = 255

\* the entry of the Mixed table for '_' was read: 63
C12_Witness ==
  /\ pc = "returned"
  /\ op = "dectbl[c]"
  /\ tbl = "BASE64MIX_DEC"
  /\ src.mem = <<95>>
  /\ ret = 63

\* one of the allocating functions was called and returned
C13_Returned == pc = "returned" /\ op \in {"b64m_encode", "b64m_decode"}

\* the number of characters the encoder produces for n bytes with table t
C13_EncodedSize(n, t) ==
  IF t = "BASE64MIX_STDENC" THEN 4 * ((n + 2) \div 3)
  ELSE 4 * (n \div 3) + (IF n % 3 = 0 THEN 0 ELSE (n % 3) + 1)

\* the output length of the call: the length of the encoding of the input,
\* or of the decoding of the characters before the trailing padding
C13_OutputLength ==
  IF op = "b64m_encode" THEN C13_EncodedSize(srclen, tbl)
  ELSE (3 * (srclen - TrailingPads(src.mem))) \div 4

(***************************************************************************)
(* C13.  After any call of b64m_encode or b64m_decode, either a non-NULL   *)
(* block is returned that is still allocated, it is the only block of the  *)
(* call, and *len has been replaced by the output length, which is where   *)
(* the block's terminator is; or NULL is returned, every block allocated   *)
(* during the call has been freed, and *len still holds the input length.  *)
(* This covers the returns for an invalid argument, a size overflow, a     *)
(* failed allocation and a failure of the buffer function.                 *)
(***************************************************************************)
C13_Ownership ==
  C13_Returned
  => IF res # NoBlock
     THEN /\ heap = <<"allocated">>
          /\ res = 1
          /\ ~len.null
          /\ len.val = C13_OutputLength
          /\ dst.mem[len.val + 1] = 0
     ELSE /\ \A b \in DOMAIN heap : heap[b] = "freed"
          /\ ~len.null => len.val = srclen

\* the buffer function failed, the block was freed, NULL was returned
C13_Witness ==
  /\ C13_Returned
  /\ op = "b64m_decode"
  /\ res = NoBlock
  /\ heap = <<"freed">>
  /\ errno = EILSEQ
  /\ len.val = srclen

\* the five checks, as properties of the arguments of the call
C14_BadLength == srclen % 4 = 1
C14_NoSpace == dstlen < SizeT(b64m_decoded_len(srclen) + 1)
C14_BadPadding == ~C8_PassesPadding
C14_BadCharacter == ~C8_AllValid
C14_SpareBits == C8_TailNotCanonical

(***************************************************************************)
(* C14.  b64m_decode_to_buffer, called with non-NULL arguments, reports    *)
(* the first failing check in the order: input length congruent to 1       *)
(* modulo 4 (EINVAL), capacity below b64m_decoded_len(srclen) + 1          *)
(* (ENOSPC), malformed padding (EINVAL), an invalid character before the   *)
(* trailing padding (EINVAL), non-zero spare bits in the tail (EILSEQ);    *)
(* it succeeds when no check fails.  So a bad length with a buffer too     *)
(* small is EINVAL, malformed padding with a buffer too small is ENOSPC,   *)
(* and an invalid character with a non-canonical tail is EINVAL, not       *)
(* EILSEQ.                                                                 *)
(***************************************************************************)
C14_ValidationOrder ==
  (Returned(Decoder) /\ NonNull)
  => IF C14_BadLength THEN Failed(Decoder, EINVAL) /\ retline = 481
     ELSE IF C14_NoSpace THEN Failed(Decoder, ENOSPC) /\ retline = 488
     ELSE IF C14_BadPadding
       THEN Failed(Decoder, EINVAL) /\ retline \in PadLines
     ELSE IF C14_BadCharacter
       THEN Failed(Decoder, EINVAL) /\ retline \in CharLines
     ELSE IF C14_SpareBits
       THEN Failed(Decoder, EILSEQ) /\ retline \in {603, 631}
     ELSE Succeeded(Decoder)

\* "A=" in a buffer too small: malformed padding, reported as no space
C14_Witness ==
  /\ Failed(Decoder, ENOSPC)
  /\ NonNull
  /\ src.mem = <<65, PadChar>>
  /\ C14_BadPadding
  /\ C14_NoSpace

(***************************************************************************)
(* C15 as stated.  Every input b64m_decode_to_buffer accepts yields        *)
(* floor(3 * p / 4) bytes, p being the number of characters before the     *)
(* trailing padding, and this never exceeds b64m_decoded_len(srclen) as    *)
(* computed in size_t, so that a destination of b64m_decoded_len(srclen)   *)
(* + 1 bytes is never overrun, whatever srclen is.                         *)
(***************************************************************************)
C15_Original ==
  (Succeeded(Decoder) /\ NonNull)
  => /\ ret = (3 * (srclen - TrailingPads(src.mem))) \div 4
     /\ ret <= b64m_decoded_len(srclen)
     /\ dstlen = SizeT(b64m_decoded_len(srclen) + 1)
          => Len(dst.mem) <= dstlen

\* the call got past the length test, the capacity test and the padding
\* scan: it returned from the block loops, the tail or the end
C16_PassedScan ==
  /\ Returned(Decoder)
  /\ retline \in CharLines \cup {603, 631, 648}

\* where the padding scan left end: the number of characters before the
\* trailing padding
C16_End == PadScan(src.mem, srclen, srclen, 0).end

C17_Examples == { <<65, 65, 61, 61>>, <<65, 65, 65, 61>> }

\* the input is valid but for the question of its padding: it passes the
\* length and capacity tests, ends in one or two '=' that bring its length
\* to a multiple of 4, and the characters before them are in the table and
\* end in a canonical tail
C17_ValidPadded ==
  /\ C7_PassesLengthAndCapacity
  /\ TrailingPads(src.mem) \in {1, 2}
  /\ srclen % 4 = 0
  /\ C8_AllValid
  /\ ~C8_TailNotCanonical

(***************************************************************************)
(* C17 as stated.  Whether trailing '=' is permitted depends on the table: *)
(* an otherwise valid padded input such as "AA==" or "AAA=" is rejected    *)
(* when decoded with BASE64MIX_URLDEC and accepted when decoded with       *)
(* BASE64MIX_STDDEC.                                                       *)
(***************************************************************************)
C17_Original ==
  (Returned(Decoder) /\ C17_ValidPadded)
  => /\ tbl = "BASE64MIX_URLDEC" => ret = SIZE_MAX
     /\ tbl = "BASE64MIX_STDDEC" => Succeeded(Decoder)

(***************************************************************************)
(* C17 as amended.  Whether trailing '=' is permitted does not depend on   *)
(* the table: an otherwise valid padded input is accepted with each of     *)
(* the three tables and yields floor(3 * p / 4) bytes for its p characters *)
(* before the padding; "AA==" decodes to one zero byte and "AAA=" to two   *)
(* with BASE64MIX_URLDEC as with BASE64MIX_STDDEC.                         *)
(***************************************************************************)
C17_PaddingAnyTable ==
  (Returned(Decoder) /\ C17_ValidPadded)
  => /\ Succeeded(Decoder)
     /\ ret = (3 * (srclen - TrailingPads(src.mem))) \div 4
     /\ src.mem \in C17_Examples => Output = Fill(0, ret)

\* "AA==" was decoded with the URL-safe table
C17_Witness ==
  /\ Succeeded(Decoder)
  /\ tbl = "BASE64MIX_URLDEC"
  /\ src.mem = <<65, 65, 61, 61>>
  /\ Output = <<0>>

\* s with every '-' replaced by '+' and every '_' by '/'
C18_ToStandard(s) ==
  [k \in 1..Len(s) |-> IF s[k] = 45 THEN 43 ELSE IF s[k] = 95 THEN 47 ELSE s[k]]

\* what the decoder hands back for the characters s with table t and the
\* capacity of the call of this state
C18_Decode(s, t) ==
  b64m_decode_to_buffer(Ptr(s), Len(s), Fresh(dstlen), dstlen, t)

\* the call of this state ended as r does: the same length and bytes, or
\* the same error
C18_EndedAs(r) ==
  /\ ret = r.ret
  /\ IF r.ret = SIZE_MAX
     THEN errno = r.err
     ELSE Output \o <<0>> = r.wrote

(***************************************************************************)
(* C18.  For every input and capacity: when decoding with the Standard or  *)
(* with the URL-safe table succeeds, decoding the same input with the      *)
(* Mixed table succeeds with the same bytes and length; and decoding s     *)
(* with the Mixed table gives the same bytes, or the same error, as        *)
(* decoding with the Standard table s with '-' replaced by '+' and '_' by  *)
(* '/'.                                                                    *)
(***************************************************************************)
C18_MixedExtendsStrict ==
  (Returned(Decoder) /\ NonNull)
  => /\ (tbl \in {"BASE64MIX_STDDEC", "BASE64MIX_URLDEC"} /\ Succeeded(Decoder))
          => C18_EndedAs(C18_Decode(src.mem, "BASE64MIX_DEC"))
     /\ tbl = "BASE64MIX_DEC"
          => C18_EndedAs(C18_Decode(C18_ToStandard(src.mem), "BASE64MIX_STDDEC"))

\* "_w" was decoded with the Mixed table as "/w" is with the Standard one
C18_Witness ==
  /\ Succeeded(Decoder)
  /\ tbl = "BASE64MIX_DEC"
  /\ src.mem = <<95, 119>>
  /\ C18_ToStandard(src.mem) = <<47, 119>>
  /\ Output = <<255>>

\* s extended with '=' to a multiple of 4 characters
C19_Padded(s) == s \o Fill(PadChar, (4 - (Len(s) % 4)) % 4)

\* the Standard encoder was applied to what the Standard decoder made of
\* the characters coded.mem, and succeeded
C19_Reencoded ==
  /\ Succeeded(Encoder)
  /\ coded.fed
  /\ coded.dectbl = "BASE64MIX_STDDEC"
  /\ tbl = "BASE64MIX_STDENC"

(***************************************************************************)
(* C19.  For every input s the decoder accepts with the Standard table,    *)
(* yielding the bytes B, the Standard encoding of B is s extended with '=' *)
(* to a multiple of 4 characters, and is s itself when s is padded or has  *)
(* a length that is a multiple of 4.  So the accepted inputs decoding to B *)
(* differ in their trailing padding only.                                  *)
(***************************************************************************)
C19_CanonicalEncodings ==
  C19_Reencoded
  => /\ Output = C19_Padded(coded.mem)
     /\ Len(coded.mem) % 4 = 0 => Output = coded.mem
     /\ SubSeq(Output, 1, Len(coded.mem) - TrailingPads(coded.mem))
          = SubSeq(coded.mem, 1, Len(coded.mem) - TrailingPads(coded.mem))

\* the unpadded "AAA" was accepted and its bytes encode to "AAA="
C19_Witness ==
  /\ C19_Reencoded
  /\ coded.mem = <<65, 65, 65>>
  /\ src.mem = <<0, 0>>
  /\ Output = <<65, 65, 65, PadChar>>
====
